---- MODULE Spec2Model ----
(***************************************************************************)
(* Schnorr identification protocol of src/src/main.rs: the demonstration   *)
(* group (p = 23, q = 11, g = 4), a Prover holding the secret x and the    *)
(* public key y = g^x mod p, and a Verifier.  The four protocol methods    *)
(* (step1, step2, step3, verify) take and return plain BigUint / bool      *)
(* values and hold no session state; the variables below record the last   *)
(* invocation of each method (its arguments and what it returned).         *)
(***************************************************************************)
EXTENDS Integers, Sequences, FiniteSets

VARIABLES
    params,     \* main: let params = PublicParams::new()
    prover,     \* struct Prover   { params, x, y }
    verifier,   \* struct Verifier { params }
    commit,     \* last Prover::step1 call: the returned (r, t)
    chal,       \* last Verifier::step2 call: arguments (t, y), returned c
    resp,       \* last Prover::step3 call: arguments (r, c), returned s
    verdict,    \* last Verifier::verify call: arguments (t, c, s, y), returned bool
    replies,    \* Prover::step3 applied repeatedly to one r (algebra of step3)
    fed         \* byte strings handed to the hasher by Verifier::step2

vars == <<params, prover, verifier, commit, chal, resp, verdict, replies, fed>>

session == <<commit, chal, resp, verdict>>

(***************************************************************************)
(* Bounds of the model.                                                    *)
(***************************************************************************)
\* secrets handed to Prover::new range over 0..MaxSecret (covers 0, q, 2q)
MaxSecret == 22
\* challenges handed to Prover::step3 range over 0..MaxChallenge (covers c >= q)
MaxChallenge == 12
\* responses handed to Verifier::verify range over 0..MaxResponse (covers s >= q)
MaxResponse == 12
\* the SHA-256 digest, read as an integer, ranges over 0..MaxDigest (covers >= q)
MaxDigest == 12
\* values a caller makes up when it calls a method before holding a real one
MaxForged == 1
\* calls of Prover::step3 recorded in replies
MaxReplies == 2
\* calls of Verifier::step2 recorded in fed
MaxFeeds == 2
\* operands of the hash are hi * 256 + lo with hi in 0..MaxHi, lo in 0..MaxLo
MaxHi == 1
MaxLo == 2

(***************************************************************************)
(* BigUint arithmetic (num_bigint): exact, unsigned, unbounded.            *)
(***************************************************************************)
RECURSIVE modpow(_, _, _)
\* BigUint::modpow(exponent, modulus): self^exponent mod modulus
modpow(b, e, m) ==
    IF e = 0 THEN 1 % m ELSE (b * modpow(b, e - 1, m)) % m

RECURSIVE to_bytes_be(_)
\* BigUint::to_bytes_be: minimal-length big-endian bytes, zero is [0]
to_bytes_be(n) ==
    IF n < 256 THEN <<n>> ELSE Append(to_bytes_be(n \div 256), n % 256)

(***************************************************************************)
(* PublicParams::new                                                        *)
(***************************************************************************)
\* parameters whose g generates the whole group of order p - 1
PublicParams_new_full_group == [p |-> 23, q |-> 11, g |-> 5]

PublicParams_new == [p |-> 23, q |-> 11, g |-> 4]

(***************************************************************************)
(* Prover                                                                   *)
(***************************************************************************)
\* Prover::new(params, secret): x = secret % q, y = g^x mod p
Prover_new(pp, secret) ==
    LET x == secret % pp.q
        y == modpow(pp.g, x, pp.p)
    IN  [live |-> TRUE, params |-> pp, x |-> x, y |-> y]

\* rng.gen_biguint_below(&q): uniform over 0 .. q-1
gen_biguint_below(bound) == 0 .. (bound - 1)

\* Prover::step1 for the drawn r: (r, t) with t = g^r mod p
Prover_step1(self, r) ==
    [live |-> TRUE, r |-> r, t |-> modpow(self.params.g, r, self.params.p)]

\* a step3 that adds the challenge instead of multiplying by it
Prover_step3_sum(self, r, c) == (r + (c + self.x)) % self.params.q

\* Prover::step3(r, c): (r + c*x) % q
Prover_step3(self, r, c) == (r + (c * self.x)) % self.params.q

(***************************************************************************)
(* Verifier                                                                 *)
(***************************************************************************)
Verifier_new(pp) == [live |-> TRUE, params |-> pp]

\* the bytes Verifier::step2 feeds to the hasher: update(t), then update(y)
hash_input(t, y) == to_bytes_be(t) \o to_bytes_be(y)

\* Sha256 finalize + BigUint::from_bytes_be: the digest as an integer.  The
\* compression function is not modelled; the digest of a byte string is any
\* value of Digests.
Digests == 0 .. MaxDigest

\* Verifier::step2(t, y), given the digest of hash_input(t, y): the record of
\* the call with the bytes hashed and the returned challenge digest % q
Verifier_step2(self, t, y, digest) ==
    [live |-> TRUE, t |-> t, y |-> y, data |-> hash_input(t, y),
     c |-> digest % self.params.q]

\* a verify that raises g to the challenge instead of the response
Verifier_verify_wrong_exponent(self, t, c, s, y) ==
    LET left  == modpow(self.params.g, c, self.params.p)
        right == (t * modpow(y, c, self.params.p)) % self.params.p
    IN  left = right

\* Verifier::verify(t, c, s, y): g^s mod p == (t * y^c mod p) % p
Verifier_verify(self, t, c, s, y) ==
    LET left  == modpow(self.params.g, s, self.params.p)
        right == (t * modpow(y, c, self.params.p)) % self.params.p
    IN  left = right

(***************************************************************************)
(* State before any method is called.                                      *)
(***************************************************************************)
NoProver   == [live |-> FALSE, params |-> PublicParams_new, x |-> 0, y |-> 0]
NoVerifier == [live |-> FALSE, params |-> PublicParams_new]
NoCommit   == [live |-> FALSE, r |-> 0, t |-> 0]
NoChal     == [live |-> FALSE, t |-> 0, y |-> 0, data |-> <<>>, c |-> 0]
NoResp     == [live |-> FALSE, r |-> 0, c |-> 0, s |-> 0, err |-> "none"]
NoVerdict  == [live |-> FALSE, t |-> 0, c |-> 0, s |-> 0, y |-> 0,
               ok |-> FALSE, err |-> "none"]

Secrets    == 0 .. MaxSecret
Challenges == 0 .. MaxChallenge
Responses  == 0 .. MaxResponse
Forged     == 0 .. MaxForged

Init ==
    /\ params = PublicParams_new
    /\ prover = NoProver
    /\ verifier = NoVerifier
    /\ commit = NoCommit
    /\ chal = NoChal
    /\ resp = NoResp
    /\ verdict = NoVerdict
    /\ replies = <<>>
    /\ fed = <<>>

(***************************************************************************)
(* main, lines 101 and 104: the two constructors.                          *)
(***************************************************************************)
NewProver ==
    /\ ~prover.live
    /\ \E secret \in Secrets : prover' = Prover_new(params, secret)
    /\ UNCHANGED <<params, verifier, session, replies, fed>>

NewVerifier ==
    /\ prover.live
    /\ ~verifier.live
    /\ verifier' = Verifier_new(params)
    /\ UNCHANGED <<params, prover, session, replies, fed>>

Ready == prover.live /\ verifier.live

(***************************************************************************)
(* The protocol methods.  Every method is callable at any time with any    *)
(* BigUint arguments: a caller passes the values it holds from earlier     *)
(* calls, or made-up ones when it holds none.  The records keep one proof:  *)
(* a new step1 drops the challenge, response and verdict recorded for the  *)
(* previous commitment, a new step3 drops the verdict on the previous      *)
(* response.                                                               *)
(***************************************************************************)
Step1 ==
    /\ Ready
    /\ \E r \in gen_biguint_below(prover.params.q) :
          commit' = Prover_step1(prover, r)
    /\ chal' = NoChal
    /\ resp' = NoResp
    /\ verdict' = NoVerdict
    /\ UNCHANGED <<params, prover, verifier, replies, fed>>

\* the t a caller passes: the commitment it holds, else a made-up value
HeldT == IF commit.live THEN {commit.t} ELSE Forged
\* the r a caller passes: the one step1 returned, else a made-up value
HeldR == IF commit.live THEN {commit.r} ELSE Forged

Step2 ==
    /\ Ready
    /\ \E t \in HeldT, digest \in Digests :
          chal' = Verifier_step2(verifier, t, prover.y, digest)
    /\ UNCHANGED <<params, prover, verifier, commit, resp, verdict, replies, fed>>

Step3 ==
    /\ Ready
    /\ \E r \in HeldR, c \in Challenges :
          resp' = [live |-> TRUE, r |-> r, c |-> c,
                   s |-> Prover_step3(prover, r, c),
                   err |-> "none"]
    /\ verdict' = NoVerdict
    /\ UNCHANGED <<params, prover, verifier, commit, chal, replies, fed>>

\* the (c, s) a caller passes: those of the response it holds, else made up
HeldCS == IF resp.live THEN {<<resp.c, resp.s>>} ELSE Forged \X Forged

Verify ==
    /\ Ready
    /\ \E t \in HeldT, cs \in HeldCS :
          verdict' = [live |-> TRUE, t |-> t, c |-> cs[1], s |-> cs[2],
                      y |-> prover.y,
                      ok |-> Verifier_verify(verifier, t, cs[1], cs[2], prover.y),
                      err |-> "none"]
    /\ UNCHANGED <<params, prover, verifier, commit, chal, resp, replies, fed>>

(***************************************************************************)
(* Prover::step3 and Verifier::verify as functions: for every secret and   *)
(* every r, step3 answers up to MaxReplies challenges with that r, and     *)
(* verify judges the first answer's (t, c) with every candidate s.         *)
(***************************************************************************)
InitAlgebra ==
    /\ params = PublicParams_new
    /\ \E secret \in Secrets : prover = Prover_new(params, secret)
    /\ verifier = Verifier_new(params)
    /\ \E r \in gen_biguint_below(params.q) : commit = Prover_step1(prover, r)
    /\ chal = NoChal
    /\ resp = NoResp
    /\ verdict = NoVerdict
    /\ replies = <<>>
    /\ fed = <<>>

Reply ==
    /\ Len(replies) < MaxReplies
    /\ ~verdict.live
    /\ \E c \in Challenges :
          replies' = Append(replies,
                            [r |-> commit.r, c |-> c,
                             s |-> Prover_step3(prover, commit.r, c),
                             err |-> "none"])
    /\ UNCHANGED <<params, prover, verifier, session, fed>>

Check ==
    /\ Len(replies) = 1
    /\ ~verdict.live
    /\ \E s \in Responses :
          verdict' = [live |-> TRUE, t |-> commit.t, c |-> replies[1].c, s |-> s,
                      y |-> prover.y,
                      ok |-> Verifier_verify(verifier, commit.t, replies[1].c,
                                             s, prover.y),
                      err |-> "none"]
    /\ UNCHANGED <<params, prover, verifier, commit, chal, resp, replies, fed>>

NextAlgebra == Reply \/ Check

SpecAlgebra == InitAlgebra /\ [][NextAlgebra]_vars

(***************************************************************************)
(* The hash input of Verifier::step2 for operands of one and two bytes.    *)
(***************************************************************************)
Operands == {hi * 256 + lo : hi \in 0 .. MaxHi, lo \in 0 .. MaxLo}

InitEncode ==
    /\ params = PublicParams_new
    /\ prover = NoProver
    /\ verifier = Verifier_new(params)
    /\ commit = NoCommit
    /\ chal = NoChal
    /\ resp = NoResp
    /\ verdict = NoVerdict
    /\ replies = <<>>
    /\ fed = <<>>

Hash ==
    /\ Len(fed) < MaxFeeds
    /\ \E t \in Operands, y \in Operands, digest \in Digests :
          /\ chal' = Verifier_step2(verifier, t, y, digest)
          /\ fed' = Append(fed, [t |-> t, y |-> y, data |-> hash_input(t, y)])
    /\ UNCHANGED <<params, prover, verifier, commit, resp, verdict, replies>>

NextEncode == Hash

SpecEncode == InitEncode /\ [][NextEncode]_vars

Next == NewProver \/ NewVerifier \/ Step1 \/ Step2 \/ Step3 \/ Verify

Spec == Init /\ [][Next]_vars

(***************************************************************************)
(* Properties.                                                             *)
(***************************************************************************)

\* C1 (completeness): when the secret x is in (0, q), step1 returned (r, t),
\* step3 answered a challenge c < q with that r, and verify was called with
\* (t, c, s, y) of that run, verify returned true.
C1_Completeness ==
    ( /\ commit.live /\ resp.live /\ verdict.live
      /\ 0 < prover.x /\ prover.x < params.q
      /\ resp.r = commit.r /\ resp.c < params.q
      /\ verdict.t = commit.t /\ verdict.c = resp.c
      /\ verdict.s = resp.s /\ verdict.y = prover.y )
    => verdict.ok

\* an accepted run whose challenge is the one step2 returned
C1_Witness ==
    /\ commit.live /\ chal.live /\ resp.live /\ verdict.live
    /\ 0 < prover.x /\ commit.r > 0
    /\ chal.t = commit.t /\ resp.r = commit.r
    /\ resp.c = chal.c /\ resp.c > 1
    /\ verdict.t = commit.t /\ verdict.c = resp.c /\ verdict.s = resp.s
    /\ verdict.ok

\* C2 (range rejection): step3 called with c >= q, and verify called with
\* c >= q or s >= q, end in the error OutOfRange.
C2_RangeRejection ==
    /\ (resp.live /\ resp.c >= params.q) => resp.err = "OutOfRange"
    /\ (verdict.live /\ (verdict.c >= params.q \/ verdict.s >= params.q))
          => verdict.err = "OutOfRange"

\* C3 (protocol ordering): a step3 not preceded by a step1, and a verify not
\* preceded by a step3, end in the error InvalidState.
C3_Ordering ==
    /\ (resp.live /\ ~commit.live) => resp.err = "InvalidState"
    /\ (verdict.live /\ ~resp.live) => verdict.err = "InvalidState"

\* C4 (one-time randomness): a second step3 with the r of one step1 ends in the
\* error NoOutstandingCommitment, so no r answers two different challenges.
C4_OneTimeRandomness ==
    \A i \in 1 .. Len(replies), j \in 1 .. Len(replies) :
        (i < j /\ replies[i].r = replies[j].r)
        => /\ replies[j].err = "NoOutstandingCommitment"
           /\ ~(replies[i].c # replies[j].c /\ replies[i].err = "none"
                /\ replies[j].err = "none")

\* C5 (soundness, negative): for x in (0, q) and an honest answer s to a
\* challenge c < q, verify(t, c, (s + 1) mod q, y) returns false.
C5_AlteredResponseRejected ==
    ( /\ verdict.live /\ Len(replies) = 1
      /\ 0 < prover.x /\ prover.x < params.q
      /\ replies[1].c < params.q
      /\ verdict.t = commit.t /\ verdict.c = replies[1].c
      /\ verdict.y = prover.y
      /\ verdict.s = (replies[1].s + 1) % params.q )
    => ~verdict.ok

\* verify has judged the altered response of an honest answer
C5_Witness ==
    /\ verdict.live /\ Len(replies) = 1
    /\ 0 < prover.x /\ commit.r > 0
    /\ replies[1].c > 0 /\ replies[1].c < params.q
    /\ verdict.c = replies[1].c
    /\ verdict.s = (replies[1].s + 1) % params.q
    /\ ~verdict.ok

\* C6 (extractor): two step3 answers s1, s2 with the same r to challenges
\* c1 # c2 below q give x = (s1 - s2) * inverse(c1 - c2) mod q.
C6_Extractor ==
    ( /\ Len(replies) = 2
      /\ 0 < prover.x /\ prover.x < params.q
      /\ replies[1].r = replies[2].r
      /\ replies[1].c < params.q /\ replies[2].c < params.q
      /\ replies[1].c # replies[2].c )
    => LET q   == params.q
           dc  == (replies[1].c + q - replies[2].c) % q
           ds  == (replies[1].s + q - replies[2].s) % q
           inv == CHOOSE i \in 1 .. (q - 1) : (dc * i) % q = 1
       IN  prover.x = (ds * inv) % q

\* one r has answered two different challenges
C6_Witness ==
    /\ Len(replies) = 2
    /\ prover.x > 1
    /\ replies[1].r = replies[2].r
    /\ replies[1].c < params.q /\ replies[2].c < params.q
    /\ replies[1].c > replies[2].c /\ replies[2].c > 0
    /\ replies[1].s # replies[2].s

\* C7 (secret range): the x stored by Prover::new satisfies 0 < x < q and the
\* public key y is not 1.
C7_SecretRange ==
    prover.live => (0 < prover.x /\ prover.x < params.q /\ prover.y # 1)

\* C8 (group parameters): the (p, q, g) of PublicParams::new, and the copies
\* held by Prover and Verifier, satisfy p prime, q prime, q | p - 1,
\* 1 < g < p, g # 1 and g^q mod p = 1 in every state.
C8_GroupParameters ==
    LET IsPrime(n) == n > 1 /\ \A d \in 2 .. (n - 1) : n % d # 0
        Valid(pp) ==
            /\ IsPrime(pp.p)
            /\ IsPrime(pp.q)
            /\ (pp.p - 1) % pp.q = 0
            /\ 1 < pp.g /\ pp.g < pp.p /\ pp.g # 1
            /\ modpow(pp.g, pp.q, pp.p) = 1
    IN  /\ Valid(params)
        /\ prover.live => (prover.params = params /\ Valid(prover.params))
        /\ verifier.live => (verifier.params = params /\ Valid(verifier.params))

\* both objects hold the parameters after a whole proof has run
C8_Witness ==
    /\ prover.live /\ verifier.live
    /\ commit.live /\ chal.live /\ resp.live /\ verdict.live
    /\ prover.params = params /\ verifier.params = params

\* C9 (unambiguous challenge input): two different pairs (t, y) give step2
\* different hash inputs.
C9_InjectiveHashInput ==
    \A i \in 1 .. Len(fed), j \in 1 .. Len(fed) :
        (fed[i].t # fed[j].t \/ fed[i].y # fed[j].y)
        => fed[i].data # fed[j].data

\* C10 (commitment randomness range): the r returned by step1 is in
\* [1, q-1], t = g^r mod p, and t is not 1.
C10_CommitmentRange ==
    commit.live =>
        /\ commit.r >= 1 /\ commit.r <= params.q - 1
        /\ commit.t = modpow(params.g, commit.r, params.p)
        /\ commit.t # 1

====
